---------------------------- MODULE Spec2Model ----------------------------
(***************************************************************************)
(* Model of the turn-key OTA firmware update of zerobyte-firmware-utils:   *)
(* the firmware index resolver (get_latest_fw_info, download_fw) and the   *)
(* DFUHandler of ZeroByteDFU.js (ota_turnkey_firmware_update and the       *)
(* functions it awaits).  One action is one await step of the async code;  *)
(* every outcome of an HTTP, filesystem or BLE call is chosen by the       *)
(* environment.  log is the trace of the I/O calls issued since the last   *)
(* attempt of ota_perform_device_update returned; hist keeps one summary   *)
(* record per returned attempt.                                            *)
(***************************************************************************)
EXTENDS Integers, Sequences, FiniteSets, TLC

VARIABLES
    pc,                \* position of the orchestrator in its async code
    fw_index,          \* the index served for the client/channel (local of get_latest_fw_info)
    model_known,       \* fw_index.hasOwnProperty(model_name)
    currentFWVersion,  \* DFUHandler.currentFWVersion
    isInOTA,           \* DFUHandler.isInOTA
    shouldCancel,      \* DFUHandler.shouldCancel (static)
    other,             \* a second call of startDFU for the same peripheralId
    latest_fw_infos,   \* local of ota_get_firmware_modules
    modules,           \* modules / firmwarePaths: the downloaded paths
    i,                 \* loop index of ota_turnkey_firmware_update
    result,            \* result of ota_turnkey_firmware_update
    skipReboot,        \* skipReboot of ota_turnkey_firmware_update
    firmwareBytes,     \* the image read by ota_read_firmware_bytes
    firmwareSize,      \* stats.size
    bytesRead,         \* bytesRead of the read stream
    done,              \* done flag of ota_read_firmware_bytes
    stream,            \* state of the read stream
    attempt,           \* which call of ota_perform_device_update inside ota_flash (1 or 2)
    flashResult,       \* result of ota_flash
    proceed,           \* proceed of ota_perform_device_update
    rebooted,          \* ota_perform_device_update is past ota_reboot_device_into_dfu
    BLOCK_SIZE,        \* DFUHandler.BLOCK_SIZE
    index,             \* index of ota_write_firmware_to_device_in_dfu
    bytesWritten,      \* bytesWritten of ota_write_firmware_to_device_in_dfu
    totalBytesWritten, \* totalBytesWritten of ota_perform_device_update
    connected,         \* the BLE link to the peripheral is up
    attemptResult,     \* value returned by ota_perform_device_update
    settled,           \* promise of ota_turnkey_firmware_update: pending, returned, rejected
    ret,               \* the value it returned
    err,               \* the value it rejected with
    plan,              \* what get_latest_fw_info returned (kept for the run)
    log,               \* I/O calls issued since the last attempt returned
    hist               \* one record per returned attempt

vars == << pc, fw_index, model_known, currentFWVersion, isInOTA, shouldCancel, other,
           latest_fw_infos, modules, i, result, skipReboot, firmwareBytes,
           firmwareSize, bytesRead, done, stream, attempt, flashResult, proceed,
           rebooted, BLOCK_SIZE, index, bytesWritten, totalBytesWritten,
           connected, attemptResult, settled, ret, err, plan, log, hist >>

---------------------------------------------------------------------------
(* Bounds of the model *)

\* largest image, in bytes; images are empty or of this size
MaxFwSize == 3
\* largest MTU the peripheral negotiates
MaxMTU == 10
\* bytes per chunk delivered by the read stream
ChunkSize == 2

\* MTUs the peripheral may negotiate: one that is not above 8, one above
MTUs == {8, MaxMTU}
FwSizes == {0, MaxFwSize}

---------------------------------------------------------------------------
(* Program constants *)

OTA_SUCCESS == 1
OTA_FAILURE == 0
OTA_NOUPDATE == -1
REBOOT_DELAY_MS == 2500
REQUEST_MTU == 245
CTL_START == 0
CTL_DONE == 3
CTL_CLOSE == 4
ONE_SECOND == 1000
POLL_DELAY_MS == 100

OTA_CONTROL_ATTRIBUTE == "OTA_CONTROL"
OTA_DATA_ATTRIBUTE == "OTA_DATA"
GECKO_BOOTLOADER_VERSION == "GECKO_BOOTLOADER_VERSION"

FIRMWARE_INDEX_UNAVAILABLE == "FIRMWARE_INDEX_UNAVAILABLE"
FIRMWARE_INDEX_MALFORMED == "FIRMWARE_INDEX_MALFORMED"
FIRMWARE_INDEX_DEVICE_UNKNOWN == "FIRMWARE_INDEX_DEVICE_UNKNOWN"
FIRMWARE_INDEX_LATEST_VERSION_UNKNOWN == "FIRMWARE_INDEX_LATEST_VERSION_UNKNOWN"
FIRMWARE_BUNDLE_UNAVAILABLE == "FIRMWARE_BUNDLE_UNAVAILABLE"
UNKNOWN_ERROR == "UNKNOWN_ERROR"

\* JavaScript's undefined, and the errors the runtime raises
Undefined == "undefined"
TypeError == "TypeError"
SyntaxError == "SyntaxError"
NoError == "none"
BleError == "BleError"
FsError == "FsError"
Pending == "pending"
Returned == "returned"
Rejected == "rejected"

---------------------------------------------------------------------------
(* The firmware index *)

Versions == {"a1", "v2"}

\* A DeviceFirmware: its version keys, its `latest` field (Undefined when the
\* field is missing) and the apploader declared by version v2 (Undefined when
\* none).  In an index as published a `latest` field and an `apploader`
\* field name existing keys.
DeviceFirmwares ==
    { [keys |-> k, latest |-> l, apploader |-> a] :
        k \in SUBSET Versions, l \in Versions \cup {Undefined},
        a \in {Undefined, "a1"} }

ValidDeviceFirmware(df) ==
    /\ df.latest # Undefined => df.latest \in df.keys
    /\ df.apploader # Undefined => {"v2", df.apploader} \subseteq df.keys

NoDeviceFirmware == [keys |-> {}, latest |-> Undefined, apploader |-> Undefined]

\* Outcomes of the HTTP GET of the index and of an artifact
IndexResponses == {"ok", "not_ok", "fetch_rejects", "bad_json"}
DownloadResponses == {"ok", "not_200", "fetch_rejects"}

\* The FirmwareInfo stored under key v, as get_latest_fw_info sees it after
\* it has set info['version'] on the entry of `latest`
FwInfo(df, v, latest) ==
    IF v \in df.keys
    THEN [key |-> v,
          version |-> IF v = latest THEN latest ELSE Undefined,
          apploader |-> IF v = "v2" THEN df.apploader ELSE Undefined]
    ELSE [key |-> Undefined, version |-> Undefined, apploader |-> Undefined]

\* Object.keys(model_infos) without `latest`, in the order of the index
ObjectKeys(df) ==
    IF df.keys = {} THEN << >>
    ELSE IF df.keys = {"a1"} THEN << "a1" >>
    ELSE IF df.keys = {"v2"} THEN << "v2" >>
    ELSE << "a1", "v2" >>


---------------------------------------------------------------------------
(* get_latest_fw_info and download_fw *)

\* _retrieve_fw_index: the error it fails with for a response, or NoError.
\* A rejected fetch is not caught; response.json() is not awaited inside the
\* try block, so a parse failure surfaces as the rejection of the returned
\* promise.
_retrieve_fw_index(resp) ==
    CASE resp = "fetch_rejects" -> TypeError
      [] resp = "not_ok" -> FIRMWARE_INDEX_UNAVAILABLE
      [] resp = "bad_json" -> SyntaxError
      [] OTHER -> NoError

\* latest_fw_version of get_latest_fw_info; Undefined when there is no key
LatestFwVersion(df) ==
    IF df.latest = Undefined
    THEN (IF Len(ObjectKeys(df)) > 0 THEN ObjectKeys(df)[1] ELSE Undefined)
    ELSE df.latest

\* variant for sensitivity analysis: nothing is pushed to infos
Infos_Empty(df, latest) == << >>

\* infos of get_latest_fw_info: the latest info is pushed first, the
\* apploader it declares is pushed after it
Infos(df, latest) ==
    LET info == FwInfo(df, latest, latest) IN
      IF info.apploader # Undefined
      THEN << info, FwInfo(df, info.apploader, latest) >>
      ELSE << info >>

\* variant for sensitivity analysis: get_latest_fw_info without the check of
\* fw_index.hasOwnProperty(model_name)
get_latest_fw_info_AnyModel(resp, known, df, current_fw_version) ==
    LET e == _retrieve_fw_index(resp)
        latest == LatestFwVersion(df)
        Fail(x) == [error |-> x, infos |-> << >>]
    IN  IF e # NoError THEN Fail(e)
        ELSE IF df.latest = Undefined /\ Len(ObjectKeys(df)) > 1
             THEN Fail(FIRMWARE_INDEX_LATEST_VERSION_UNKNOWN)
        ELSE IF current_fw_version # latest
             THEN (IF latest \in df.keys
                   THEN [error |-> NoError, infos |-> Infos(df, latest)]
                   ELSE Fail(TypeError))
        ELSE [error |-> NoError, infos |-> << >>]

\* get_latest_fw_info: [error, infos] for a response, an index and a current
\* version
get_latest_fw_info(resp, known, df, current_fw_version) ==
    LET e == _retrieve_fw_index(resp)
        latest == LatestFwVersion(df)
        Fail(x) == [error |-> x, infos |-> << >>]
    IN  IF e # NoError THEN Fail(e)
        ELSE IF ~known THEN Fail(FIRMWARE_INDEX_DEVICE_UNKNOWN)
        ELSE IF df.latest = Undefined /\ Len(ObjectKeys(df)) > 1
             THEN Fail(FIRMWARE_INDEX_LATEST_VERSION_UNKNOWN)
        ELSE IF current_fw_version # latest
             THEN (IF latest \in df.keys
                   THEN [error |-> NoError, infos |-> Infos(df, latest)]
                   ELSE Fail(TypeError))
        ELSE [error |-> NoError, infos |-> << >>]

\* variant for sensitivity analysis: a failed download goes unnoticed
download_fw_NeverFails(resp) == NoError

\* download_fw: the error it fails with for a response, or NoError.  The
\* .catch at the end of the chain turns every failure into UNKNOWN_ERROR.
download_fw(resp) ==
    IF resp = "ok" THEN NoError ELSE UNKNOWN_ERROR

---------------------------------------------------------------------------
(* The I/O trace *)

Ev(op, by, ch, val, n, ok) ==
    [op |-> op, by |-> by, ch |-> ch, val |-> val, n |-> n, ok |-> ok]

Delay(by, ms) == Ev("delay", by, "", << >>, ms, TRUE)
\* onProgress(num / den)
Progress(by, num, den) == Ev("progress", by, "", << num, den >>, 0, TRUE)
Cancel(by, ok) == Ev("cancelDeviceConnection", by, "", << >>, 0, ok)
WriteControl(by, word, ok) ==
    Ev("writeWithResponse", by, OTA_CONTROL_ATTRIBUTE, << word >>, 0, ok)

\* the functions that run inside ota_perform_device_update
AttemptFns == {"ota_perform_device_update", "ota_connect_and_discover",
               "ota_confirm_device_in_dfu", "ota_reboot_device_into_dfu",
               "ota_write_start_command_to_control",
               "ota_write_firmware_to_device_in_dfu", "ota_end_upload_process"}

BleOps == {"cancelDeviceConnection", "isDeviceConnected", "connectToDevice",
           "discoverAllServicesAndCharacteristicsForDevice",
           "requestMTUForDevice", "readCharacteristic", "writeWithResponse",
           "writeWithoutResponse"}


---------------------------------------------------------------------------
(* Initial state: a DFUHandler constructed by startDFU *)

NoPlan == [error |-> Pending, infos |-> << >>]
NoInfos == [undefined |-> FALSE, list |-> << >>]

Init ==
    /\ pc = "turnkey"
    /\ model_known \in BOOLEAN
    /\ fw_index \in { df \in DeviceFirmwares : ValidDeviceFirmware(df) }
    /\ (~model_known => fw_index = NoDeviceFirmware)
    /\ currentFWVersion \in Versions \cup {Undefined}
    /\ isInOTA \in BOOLEAN
    /\ shouldCancel = FALSE
    /\ other = "none"
    /\ connected \in BOOLEAN
    /\ latest_fw_infos = NoInfos
    /\ modules = << >>
    /\ i = 0
    /\ result = TRUE
    /\ skipReboot = FALSE
    /\ firmwareBytes = << >>
    /\ firmwareSize = 0
    /\ bytesRead = 0
    /\ done = FALSE
    /\ stream = "none"
    /\ attempt = 0
    /\ flashResult = FALSE
    /\ proceed = TRUE
    /\ rebooted = FALSE
    /\ BLOCK_SIZE = REQUEST_MTU - 8
    /\ index = 0
    /\ bytesWritten = 0
    /\ totalBytesWritten = 0
    /\ attemptResult = FALSE
    /\ settled = Pending
    /\ ret = 0
    /\ err = NoError
    /\ plan = NoPlan
    /\ log = << >>
    /\ hist = << >>

\* groups of variables an action leaves alone
resolverVars == << fw_index, model_known, latest_fw_infos, modules, plan >>
configVars == << currentFWVersion, isInOTA >>
loopVars == << i, result, skipReboot, flashResult >>
readVars == << firmwareBytes, firmwareSize, bytesRead, done, stream >>
attemptVars == << attempt, proceed, rebooted, BLOCK_SIZE, index, bytesWritten,
                  totalBytesWritten, attemptResult >>
outcomeVars == << settled, ret, err >>

\* the promise of ota_turnkey_firmware_update rejects with e
Reject(e) ==
    /\ pc' = "done"
    /\ settled' = Rejected
    /\ err' = e
    /\ ret' = ret

\* ota_turnkey_firmware_update returns v
Return(v) ==
    /\ pc' = "done"
    /\ settled' = Returned
    /\ ret' = v
    /\ err' = err

---------------------------------------------------------------------------
(* ota_turnkey_firmware_update, up to the list of firmware paths *)

ota_turnkey_begin ==
    /\ pc = "turnkey"
    /\ shouldCancel' = FALSE
    /\ pc' = "get_latest_fw_info"
    /\ UNCHANGED << resolverVars, configVars, other, loopVars, readVars, attemptVars,
                    connected, outcomeVars, log, hist >>

\* what the .catch of ota_get_firmware_modules leaves in latest_fw_infos
CaughtInfos(r) ==
    IF r.error = NoError THEN [undefined |-> FALSE, list |-> r.infos]
    ELSE IF r.error \in {FIRMWARE_INDEX_UNAVAILABLE,
                         FIRMWARE_INDEX_LATEST_VERSION_UNKNOWN}
         THEN [undefined |-> FALSE, list |-> << >>]
    ELSE [undefined |-> TRUE, list |-> << >>]

\* ota_get_firmware_modules returns before its download loop
ReturnsNoModules(infos, current) ==
    \/ infos.undefined
    \/ Len(infos.list) > 0 /\ current = infos.list[1].version

\* ota_get_firmware_modules: await get_latest_fw_info(...).catch(...), then
\* the checks before the download loop.  The trace gets the fetch of the
\* index and, for a response that is ok, the response.json() that parses it.
ota_get_firmware_modules_infos ==
    /\ pc = "get_latest_fw_info"
    /\ \E resp \in IndexResponses :
         LET r == get_latest_fw_info(resp, model_known, fw_index, currentFWVersion)
             infos == CaughtInfos(r)
         IN  /\ plan' = r
             /\ log' = log \o << Ev("fetch", "_retrieve_fw_index", "index.json",
                                     << >>, 0, resp \in {"ok", "bad_json"}) >>
                           \o (IF resp \in {"ok", "bad_json"}
                               THEN << Ev("json", "_retrieve_fw_index", "index.json",
                                          << >>, 0, resp = "ok") >>
                               ELSE << >>)
             /\ IF ReturnsNoModules(infos, currentFWVersion) \/ Len(infos.list) = 0
                THEN /\ latest_fw_infos' = NoInfos
                     /\ pc' = "firmwarePaths"
                ELSE /\ latest_fw_infos' = infos
                     /\ pc' = "download_fw"
    /\ UNCHANGED << fw_index, model_known, modules, configVars, shouldCancel, other,
                    loopVars, readVars, attemptVars, connected, outcomeVars, hist >>

\* ota_get_firmware_modules: one turn of the download loop
ota_get_firmware_modules_download ==
    /\ pc = "download_fw"
    /\ LET n == Len(modules) + 1
           info == latest_fw_infos.list[n]
       IN  IF info.key = Undefined
           THEN \* latest_fw_info.version of an undefined entry
                /\ Reject(TypeError)
                /\ UNCHANGED << log, modules, latest_fw_infos >>
           ELSE \E resp \in DownloadResponses :
                  /\ log' = Append(log, Ev("fetch", "download_fw", info.key,
                                           << >>, 0, resp = "ok"))
                  /\ IF download_fw(resp) # NoError
                     THEN /\ Reject(download_fw(resp))
                          /\ UNCHANGED << modules, latest_fw_infos >>
                     ELSE /\ modules' = Append(modules, info.key)
                          /\ IF n = Len(latest_fw_infos.list)
                             THEN /\ pc' = "firmwarePaths"
                                  /\ latest_fw_infos' = NoInfos
                             ELSE /\ pc' = "download_fw"
                                  /\ latest_fw_infos' = latest_fw_infos
                          /\ UNCHANGED outcomeVars
    /\ UNCHANGED << fw_index, model_known, plan, configVars, shouldCancel, other,
                    loopVars, readVars, attemptVars, connected, hist >>

\* firmwarePaths.length === 0: onProgress(100); return -1
ota_turnkey_no_update ==
    /\ pc = "firmwarePaths"
    /\ Len(modules) = 0
    /\ log' = Append(log, Progress("ota_turnkey_firmware_update", 100, 1))
    /\ Return(OTA_NOUPDATE)
    /\ UNCHANGED << resolverVars, configVars, shouldCancel, other, loopVars, readVars,
                    attemptVars, connected, hist >>

\* the index the loop of ota_turnkey_firmware_update starts at
FirstIndex(firmwarePaths) == Len(firmwarePaths) - 1

\* the index the loop goes to after index k
NextIndex(k) == k - 1

\* variant for sensitivity analysis: the loop does not look at result
LoopContinues_IgnoresResult(res, k, firmwarePaths) == k >= 0

\* the loop condition
LoopContinues(res, k, firmwarePaths) == res /\ k >= 0

\* variant for sensitivity analysis: the loop's result is not looked at
TurnkeyResult_Success(res) == OTA_SUCCESS

\* the value ota_turnkey_firmware_update returns after the loop
TurnkeyResult(res) == IF res THEN OTA_SUCCESS ELSE OTA_FAILURE

\* result = true; skipReboot = this.isInOTA; enter the loop.  The locals of
\* get_latest_fw_info are out of scope from here on.
ota_turnkey_enter_loop ==
    /\ pc = "firmwarePaths"
    /\ Len(modules) > 0
    /\ result' = TRUE
    /\ skipReboot' = isInOTA
    /\ i' = FirstIndex(modules)
    /\ pc' = "loop_cancel"
    /\ fw_index' = NoDeviceFirmware
    /\ model_known' = FALSE
    /\ UNCHANGED << latest_fw_infos, modules, plan, configVars, shouldCancel, other,
                    flashResult, readVars, attemptVars, connected, outcomeVars,
                    log, hist >>


---------------------------------------------------------------------------
(* The loop of ota_turnkey_firmware_update, ota_flash, ota_read_firmware_bytes *)

firmwarePath == modules[i + 1]

\* the bytes stored in a downloaded file of the given size
FileBytes(size) == [k \in 1..size |-> k]

\* try { await cancelDeviceConnection } catch { logWarning }, then ota_flash
\* up to the stat of ota_read_firmware_bytes
ota_turnkey_cancel ==
    /\ pc = "loop_cancel"
    /\ \E ok \in BOOLEAN :
         /\ log' = Append(log, Cancel("ota_turnkey_firmware_update", ok))
         /\ connected' = (IF ok THEN FALSE ELSE connected)
    /\ pc' = "stat"
    /\ UNCHANGED << resolverVars, configVars, shouldCancel, other, loopVars, readVars,
                    attemptVars, outcomeVars, hist >>

\* the state ota_perform_device_update starts from
BeginAttempt(n) ==
    /\ attempt' = n
    /\ proceed' = TRUE
    /\ rebooted' = FALSE
    /\ totalBytesWritten' = 0
    /\ index' = 0
    /\ bytesWritten' = 0
    /\ attemptResult' = FALSE
    /\ pc' = "isDeviceConnected"

\* let stats = await RNFetchBlob.fs.stat(filePath)
ota_read_firmware_bytes_stat ==
    /\ pc = "stat"
    /\ \/ /\ log' = Append(log, Ev("stat", "ota_read_firmware_bytes", firmwarePath,
                                   << >>, 0, FALSE))
          /\ Reject(FsError)
          /\ UNCHANGED << readVars, attemptVars >>
       \/ \E size \in FwSizes :
            /\ log' = Append(log, Ev("stat", "ota_read_firmware_bytes", firmwarePath,
                                     << >>, size, TRUE))
            /\ firmwareSize' = size
            /\ firmwareBytes' = [k \in 1..size |-> 0]
            /\ bytesRead' = 0
            /\ done' = FALSE
            /\ UNCHANGED outcomeVars
            /\ IF size > 0
               THEN /\ stream' = "requested"
                    /\ pc' = "read_poll"
                    /\ UNCHANGED attemptVars
               ELSE /\ stream' = "none"
                    /\ BeginAttempt(1)
                    /\ UNCHANGED BLOCK_SIZE
    /\ UNCHANGED << resolverVars, configVars, shouldCancel, other, loopVars, connected,
                    hist >>

\* RNFetchBlob.fs.readStream(...).then(stream => { stream.open(); ... }), or
\* the promise rejects and nothing handles it
ReadStreamOpen ==
    /\ pc = "read_poll"
    /\ stream = "requested"
    /\ \E ok \in BOOLEAN :
         /\ stream' = (IF ok THEN "open" ELSE "rejected")
         /\ log' = Append(log, Ev("readStream", "ota_read_firmware_bytes",
                                  firmwarePath, << >>, 0, ok))
    /\ UNCHANGED << pc, resolverVars, configVars, shouldCancel, other, loopVars,
                    firmwareBytes, firmwareSize, bytesRead, done, attemptVars,
                    connected, outcomeVars, hist >>

\* firmwareBytes.set(chunk, bytesRead)
SetChunk(bytes, chunk, offset) ==
    [k \in 1..Len(bytes) |->
        IF k > offset /\ k <= offset + Len(chunk) THEN chunk[k - offset]
        ELSE bytes[k]]

\* stream.onData(chunk)
ReadStreamData ==
    /\ pc = "read_poll"
    /\ stream = "open"
    /\ bytesRead < firmwareSize
    /\ LET n == IF firmwareSize - bytesRead < ChunkSize
                THEN firmwareSize - bytesRead ELSE ChunkSize
           chunk == SubSeq(FileBytes(firmwareSize), bytesRead + 1, bytesRead + n)
       IN  /\ firmwareBytes' = SetChunk(firmwareBytes, chunk, bytesRead)
           /\ bytesRead' = bytesRead + Len(chunk)
           /\ log' = Append(log, Progress("ota_read_firmware_bytes",
                                          bytesRead + Len(chunk), firmwareSize))
    /\ UNCHANGED << pc, resolverVars, configVars, shouldCancel, other, loopVars,
                    firmwareSize, done, stream, attemptVars, connected,
                    outcomeVars, hist >>

\* stream.onEnd(): done = true
ReadStreamEnd ==
    /\ pc = "read_poll"
    /\ stream = "open"
    /\ bytesRead = firmwareSize
    /\ done' = TRUE
    /\ stream' = "ended"
    /\ UNCHANGED << pc, resolverVars, configVars, shouldCancel, other, loopVars,
                    firmwareBytes, firmwareSize, bytesRead, attemptVars,
                    connected, outcomeVars, log, hist >>

\* stream.onError(err): logError(err), and the stream delivers nothing more
ReadStreamError ==
    /\ pc = "read_poll"
    /\ stream = "open"
    /\ stream' = "error"
    /\ log' = Append(log, Ev("streamError", "ota_read_firmware_bytes",
                             firmwarePath, << >>, 0, FALSE))
    /\ UNCHANGED << pc, resolverVars, configVars, shouldCancel, other, loopVars,
                    firmwareBytes, firmwareSize, bytesRead, done, attemptVars,
                    connected, outcomeVars, hist >>

\* while (!done) await this.ota_delay(100): one turn of the loop; the 100 ms
\* waits are not written to the trace
ota_read_firmware_bytes_poll ==
    /\ pc = "read_poll"
    /\ IF done
       THEN /\ BeginAttempt(1)
            /\ UNCHANGED BLOCK_SIZE
       ELSE UNCHANGED << pc, attemptVars >>
    /\ UNCHANGED << resolverVars, configVars, shouldCancel, other, loopVars, readVars,
                    connected, outcomeVars, log, hist >>


---------------------------------------------------------------------------
(* ota_perform_device_update: connect, confirm DFU, reboot into DFU *)

Min(a, b) == IF a < b THEN a ELSE b

\* variant for sensitivity analysis: the whole MTU is taken as the block size
BlockSize_WholeMtu(mtu) == mtu

\* this.BLOCK_SIZE = (dev.mtu > 8) ? (dev.mtu - 8) : 1
BlockSize(mtu) == IF mtu > 8 THEN mtu - 8 ELSE 1

\* return (totalBytesWritten === firmwareBytes.length)
AttemptResult(total, bytes) == total = Len(bytes)

\* variant for sensitivity analysis: the outcome of the Bootloader Version read is ignored
ConfirmedInDfu_Always(readOk) == TRUE

\* result of ota_confirm_device_in_dfu for an outcome of the read
ConfirmedInDfu(readOk) == readOk

\* ota_perform_device_update returns res
PerformReturns(res) ==
    /\ pc' = "perform_return"
    /\ attemptResult' = res

\* ota_connect_and_discover returned false: `return false` after the first
\* connect; after the reconnect, proceed &&= ... skips the confirm and the
\* function returns false as well
ConnectFailed ==
    /\ PerformReturns(FALSE)
    /\ proceed' = FALSE
    /\ UNCHANGED << attempt, rebooted, BLOCK_SIZE, index, bytesWritten,
                    totalBytesWritten, connected >>

othersOfAttempt == << resolverVars, configVars, shouldCancel, other, loopVars, readVars,
                      outcomeVars, hist >>

\* await this.ota_one_second_delay(); await isDeviceConnected(...)
ota_connect_and_discover_check ==
    /\ pc = "isDeviceConnected"
    /\ \E ok \in BOOLEAN :
         /\ log' = log \o << Delay("ota_connect_and_discover", ONE_SECOND),
                             Ev("isDeviceConnected", "ota_connect_and_discover", "",
                                << >>, IF ok /\ connected THEN 1 ELSE 0, ok) >>
         /\ IF ~ok THEN ConnectFailed
            ELSE /\ pc' = (IF connected THEN "requestMTU" ELSE "connectToDevice")
                 /\ UNCHANGED << attemptVars, connected >>
    /\ UNCHANGED othersOfAttempt

\* await connectToDevice(peripheralId, {requestMTU})
ota_connect_and_discover_connect ==
    /\ pc = "connectToDevice"
    /\ \E ok \in BOOLEAN :
         /\ log' = Append(log, Ev("connectToDevice", "ota_connect_and_discover", "",
                                  << >>, REQUEST_MTU, ok))
         /\ IF ~ok THEN ConnectFailed
            ELSE /\ pc' = "discover"
                 /\ connected' = TRUE
                 /\ UNCHANGED attemptVars
    /\ UNCHANGED othersOfAttempt

\* await discoverAllServicesAndCharacteristicsForDevice(peripheralId)
ota_connect_and_discover_discover ==
    /\ pc = "discover"
    /\ \E ok \in BOOLEAN :
         /\ log' = Append(log, Ev("discoverAllServicesAndCharacteristicsForDevice",
                                  "ota_connect_and_discover", "", << >>, 0, ok))
         /\ IF ~ok THEN ConnectFailed
            ELSE /\ pc' = "requestMTU"
                 /\ UNCHANGED << attemptVars, connected >>
    /\ UNCHANGED othersOfAttempt

\* variant for sensitivity analysis: after the reboot the upload starts
\* without a second read of the Bootloader Version
AfterConnect_NoReread(isRebooted, skip) ==
    IF isRebooted THEN "upload_start"
    ELSE IF skip THEN "confirm" ELSE "reboot_write"

\* variant for sensitivity analysis: the Bootloader Version is read first
\* whatever skip_reboot says
AfterConnect_AlwaysConfirm(isRebooted, skip) == "confirm"

\* where ota_perform_device_update goes after a successful
\* ota_connect_and_discover: `skip_reboot && await ota_confirm_device_in_dfu()`
\* reads the Bootloader Version only with skip_reboot, otherwise the else
\* branch requests the reboot; after the reboot the read always follows
AfterConnect(isRebooted, skip) ==
    IF isRebooted \/ skip THEN "confirm" ELSE "reboot_write"

\* let dev = await requestMTUForDevice(...); BLOCK_SIZE is set, the function
\* returns true and ota_perform_device_update goes on to its next await
ota_connect_and_discover_mtu ==
    /\ pc = "requestMTU"
    /\ \/ /\ log' = Append(log, Ev("requestMTUForDevice", "ota_connect_and_discover",
                                   "", << >>, 0, FALSE))
          /\ ConnectFailed
       \/ \E mtu \in MTUs :
            /\ log' = Append(log, Ev("requestMTUForDevice",
                                     "ota_connect_and_discover", "", << >>, mtu, TRUE))
            /\ BLOCK_SIZE' = BlockSize(mtu)
            /\ pc' = AfterConnect(rebooted, skipReboot)
            /\ UNCHANGED << attempt, proceed, rebooted, index, bytesWritten,
                            totalBytesWritten, attemptResult, connected >>
    /\ UNCHANGED othersOfAttempt

\* await readCharacteristicForDevice(..., GECKO_BOOTLOADER_VERSION): before
\* the reboot (skip_reboot) a failure leads to the reboot path, after it to
\* `return false`
ota_confirm_device_in_dfu ==
    /\ pc = "confirm"
    /\ \E ok \in BOOLEAN :
         /\ log' = Append(log, Ev("readCharacteristic", "ota_confirm_device_in_dfu",
                                  GECKO_BOOTLOADER_VERSION, << >>, 0, ok))
         /\ IF ConfirmedInDfu(ok)
            THEN /\ pc' = "upload_start"
                 /\ UNCHANGED attemptVars
            ELSE IF rebooted
                 THEN /\ PerformReturns(FALSE)
                      /\ proceed' = FALSE
                      /\ UNCHANGED << attempt, rebooted, BLOCK_SIZE, index,
                                      bytesWritten, totalBytesWritten >>
                 ELSE /\ pc' = "reboot_write"
                      /\ UNCHANGED attemptVars
    /\ UNCHANGED << othersOfAttempt, connected >>

\* ota_reboot_device_into_dfu: await write of CTL_START to OTA Control
ota_reboot_device_into_dfu_write ==
    /\ pc = "reboot_write"
    /\ \E ok \in BOOLEAN :
         /\ log' = Append(log, WriteControl("ota_reboot_device_into_dfu", CTL_START, ok))
         /\ pc' = (IF ok THEN "reboot_cancel" ELSE "reboot_catch")
    /\ UNCHANGED << othersOfAttempt, attemptVars, connected >>

\* ota_reboot_device_into_dfu: await cancelDeviceConnection in the try block;
\* on success result = true, one second of delay, and the reconnect starts
ota_reboot_device_into_dfu_cancel ==
    /\ pc = "reboot_cancel"
    /\ \/ /\ log' = log \o << Cancel("ota_reboot_device_into_dfu", TRUE),
                              Delay("ota_reboot_device_into_dfu", ONE_SECOND) >>
          /\ connected' = FALSE
          /\ rebooted' = TRUE
          /\ pc' = "isDeviceConnected"
       \/ /\ log' = Append(log, Cancel("ota_reboot_device_into_dfu", FALSE))
          /\ pc' = "reboot_catch"
          /\ UNCHANGED << connected, rebooted >>
    /\ UNCHANGED << othersOfAttempt, attempt, proceed, BLOCK_SIZE, index,
                    bytesWritten, totalBytesWritten, attemptResult >>

\* ota_reboot_device_into_dfu: await cancelDeviceConnection in the catch
\* block; the function returns false after its delay, or the cancel throws
\* into the catch block of ota_perform_device_update
ota_reboot_device_into_dfu_catch ==
    /\ pc = "reboot_catch"
    /\ \/ /\ log' = log \o << Cancel("ota_reboot_device_into_dfu", TRUE),
                              Delay("ota_reboot_device_into_dfu", ONE_SECOND) >>
          /\ connected' = FALSE
          /\ proceed' = FALSE
          /\ PerformReturns(FALSE)
       \/ /\ log' = Append(log, Cancel("ota_reboot_device_into_dfu", FALSE))
          /\ PerformReturns(AttemptResult(totalBytesWritten, firmwareBytes))
          /\ UNCHANGED << connected, proceed >>
    /\ UNCHANGED << othersOfAttempt, attempt, rebooted, BLOCK_SIZE, index,
                    bytesWritten, totalBytesWritten >>


---------------------------------------------------------------------------
(* ota_write_firmware_to_device_in_dfu and ota_end_upload_process *)

\* variant for sensitivity analysis: the slice starts one byte late
Slice_OffByOne(bytes, from, size) ==
    SubSeq(bytes, from + 2, Min(from + size + 1, Len(bytes)))

\* bytes.slice(index, index + this.BLOCK_SIZE)
Slice(bytes, from, size) == SubSeq(bytes, from + 1, Min(from + size, Len(bytes)))

\* variant for sensitivity analysis: the upload goes on when the arming write failed
UploadProceeds_Always(startOk) == TRUE

\* if ( ! await this.ota_write_start_command_to_control() ) return 0
UploadProceeds(startOk) == startOk

\* variant for sensitivity analysis: every block is counted as a full block
BytesAfterWrite_FullBlock(written, slice, size) == written + size

\* variant for sensitivity analysis: the count is assigned, not accumulated
BytesAfterWrite_Assigned(written, slice, size) == Min(Len(slice), size)

\* bytesWritten += Math.min(currentSlice.length, this.BLOCK_SIZE)
BytesAfterWrite(written, slice, size) == written + Min(Len(slice), size)

\* variant for sensitivity analysis: the count of the data loop is kept
\* whatever the upload returned
UploadReturns_BytesWritten(n) ==
    /\ totalBytesWritten' = bytesWritten
    /\ pc' = "final_cancel"

\* ota_write_firmware_to_device_in_dfu returned n: totalBytesWritten = n, and
\* ota_perform_device_update awaits its closing cancelDeviceConnection
UploadReturns(n) ==
    /\ totalBytesWritten' = n
    /\ pc' = "final_cancel"

\* this.onProgress(0.0), then the arming write of CTL_START and its delay
ota_write_start_command_to_control ==
    /\ pc = "upload_start"
    /\ \E ok \in BOOLEAN :
         /\ log' = log \o << Progress("ota_perform_device_update", 0, 1),
                             WriteControl("ota_write_start_command_to_control",
                                          CTL_START, ok) >>
                       \o (IF ok THEN << Delay("ota_write_start_command_to_control",
                                               ONE_SECOND) >>
                           ELSE << >>)
         /\ index' = 0
         /\ bytesWritten' = 0
         /\ IF UploadProceeds(ok)
            THEN /\ pc' = (IF Len(Slice(firmwareBytes, 0, BLOCK_SIZE)) > 0
                           THEN "upload_data" ELSE "upload_done")
                 /\ UNCHANGED totalBytesWritten
            ELSE UploadReturns(0)
    /\ UNCHANGED << othersOfAttempt, attempt, proceed, rebooted, BLOCK_SIZE,
                    attemptResult, connected >>

\* one turn of the while loop: the write of the current slice to OTA Data;
\* its .catch logs the error and the loop goes on
ota_write_firmware_to_device_in_dfu ==
    /\ pc = "upload_data"
    /\ LET currentSlice == Slice(firmwareBytes, index, BLOCK_SIZE)
           written == BytesAfterWrite(bytesWritten, currentSlice, BLOCK_SIZE)
       IN  \E ok \in BOOLEAN :
             /\ log' = log \o << Ev("writeWithoutResponse",
                                    "ota_write_firmware_to_device_in_dfu",
                                    OTA_DATA_ATTRIBUTE, currentSlice, 0, ok),
                                 Progress("ota_write_firmware_to_device_in_dfu",
                                          written, Len(firmwareBytes)) >>
             /\ index' = index + BLOCK_SIZE
             /\ bytesWritten' = written
             /\ pc' = (IF Len(Slice(firmwareBytes, index + BLOCK_SIZE, BLOCK_SIZE)) > 0
                       THEN "upload_data" ELSE "upload_done")
    /\ UNCHANGED << othersOfAttempt, attempt, proceed, rebooted, BLOCK_SIZE,
                    totalBytesWritten, attemptResult, connected >>

\* the delay after the loop, then ota_end_upload_process: write of CTL_DONE
ota_end_upload_process_done ==
    /\ pc = "upload_done"
    /\ \E ok \in BOOLEAN :
         /\ log' = log \o << Delay("ota_write_firmware_to_device_in_dfu", ONE_SECOND),
                             WriteControl("ota_end_upload_process", CTL_DONE, ok) >>
                       \o (IF ok THEN << Delay("ota_end_upload_process", ONE_SECOND) >>
                           ELSE << >>)
         /\ IF ok
            THEN /\ pc' = "upload_close"
                 /\ UNCHANGED totalBytesWritten
            ELSE UploadReturns(0)
    /\ UNCHANGED << othersOfAttempt, attempt, proceed, rebooted, BLOCK_SIZE,
                    index, bytesWritten, attemptResult, connected >>

\* ota_end_upload_process: write of CTL_CLOSE without response; on success
\* this.onProgress(1) and the upload returns bytesWritten
ota_end_upload_process_close ==
    /\ pc = "upload_close"
    /\ \/ /\ log' = log \o << Ev("writeWithoutResponse", "ota_end_upload_process",
                                 OTA_CONTROL_ATTRIBUTE, << CTL_CLOSE >>, 0, TRUE),
                              Delay("ota_end_upload_process", ONE_SECOND),
                              Progress("ota_write_firmware_to_device_in_dfu", 1, 1) >>
          /\ UploadReturns(bytesWritten)
       \/ /\ log' = Append(log, Ev("writeWithoutResponse", "ota_end_upload_process",
                                   OTA_CONTROL_ATTRIBUTE, << CTL_CLOSE >>, 0, FALSE))
          /\ UploadReturns(0)
    /\ UNCHANGED << othersOfAttempt, attempt, proceed, rebooted, BLOCK_SIZE,
                    index, bytesWritten, attemptResult, connected >>

\* variant for sensitivity analysis: a failed cancel fails the attempt
FinalCancelOutcome_Fatal(cancelOk, res) == cancelOk /\ res

\* the catch block of ota_perform_device_update logs the failure of the
\* closing cancel and falls through to the return statement
FinalCancelOutcome(cancelOk, res) == res

\* await cancelDeviceConnection after the upload; a failure is caught and
\* logged; return (totalBytesWritten === firmwareBytes.length)
ota_perform_device_update_cancel ==
    /\ pc = "final_cancel"
    /\ \E ok \in BOOLEAN :
         /\ log' = Append(log, Cancel("ota_perform_device_update", ok))
         /\ connected' = (IF ok THEN FALSE ELSE connected)
         /\ PerformReturns(FinalCancelOutcome(ok,
                               AttemptResult(totalBytesWritten, firmwareBytes)))
    /\ UNCHANGED << othersOfAttempt, attempt, proceed, rebooted, BLOCK_SIZE,
                    index, bytesWritten, totalBytesWritten >>

---------------------------------------------------------------------------
(* ota_flash after an attempt, and the end of a turn of the loop *)

\* number of failed calls of the attempt the trace ends with, 2 for more
NFaults(l) ==
    Min(2, Cardinality({ k \in DOMAIN l : l[k].by \in AttemptFns /\ ~l[k].ok }))

\* the record hist keeps of the attempt that returns
Summary ==
    [idx |-> i, path |-> firmwarePath, skip |-> skipReboot, attempt |-> attempt,
     result |-> attemptResult, nfaults |-> NFaults(log),
     size |-> Len(firmwareBytes)]

\* variant for sensitivity analysis: the second attempt is made whatever the
\* first returned
RetryNeeded_Unconditional(n, res) == n = 1

\* if ( false === result ): ota_flash makes its second attempt
RetryNeeded(n, res) == n = 1 /\ res = FALSE

\* variant for sensitivity analysis: ota_flash returns the result of its first attempt
FlashResult_First(first, last) == first

\* what ota_flash returns: the result of its last attempt
FlashResult(first, last) == last

\* ota_perform_device_update has returned to ota_flash: either the retry
\* starts with its cancelDeviceConnection, or ota_flash returns and
\* `result &&= ...` is done, leaving the delay at the end of the loop body
ota_flash_after_attempt ==
    /\ pc = "perform_return"
    /\ hist' = Append(hist, Summary)
    /\ log' = << >>
    /\ index' = 0
    /\ bytesWritten' = 0
    /\ totalBytesWritten' = 0
    /\ proceed' = TRUE
    /\ rebooted' = FALSE
    /\ attemptResult' = FALSE
    /\ IF RetryNeeded(attempt, attemptResult)
       THEN /\ pc' = "retry_cancel"
            /\ UNCHANGED << attempt, loopVars, readVars >>
       ELSE /\ pc' = "loop_delay"
            /\ attempt' = 0
            /\ LET first == IF attempt = 1 THEN attemptResult
                            ELSE hist[Len(hist)].result
                   r == FlashResult(first, attemptResult)
               IN  /\ flashResult' = r
                   /\ result' = (result /\ r)
            /\ firmwareBytes' = << >>
            /\ firmwareSize' = 0
            /\ bytesRead' = 0
            /\ done' = FALSE
            /\ stream' = "none"
            /\ UNCHANGED << i, skipReboot >>
    /\ UNCHANGED << resolverVars, configVars, shouldCancel, other, BLOCK_SIZE, connected,
                    outcomeVars >>

\* ota_flash: await cancelDeviceConnection (not guarded), then the reboot
\* delay, then the second call of ota_perform_device_update
ota_flash_retry ==
    /\ pc = "retry_cancel"
    /\ \/ /\ log' = log \o << Cancel("ota_flash", TRUE),
                              Delay("ota_flash", REBOOT_DELAY_MS) >>
          /\ connected' = FALSE
          /\ BeginAttempt(2)
          /\ UNCHANGED << BLOCK_SIZE, outcomeVars >>
       \/ /\ log' = Append(log, Cancel("ota_flash", FALSE))
          /\ Reject(BleError)
          /\ UNCHANGED << attemptVars, connected >>
    /\ UNCHANGED << resolverVars, configVars, shouldCancel, other, loopVars, readVars,
                    hist >>

\* variant for sensitivity analysis: skipReboot is cleared after an image
SkipRebootAfterImage_Cleared == FALSE

\* variant for sensitivity analysis: skipReboot is left as it was
SkipRebootAfterImage_Kept == skipReboot

\* skipReboot after the first turn of the loop
SkipRebootAfterImage == TRUE

\* await this.ota_delay(REBOOT_DELAY_MS); skipReboot = true; --i; then the
\* loop condition, and `return result ? 1 : 0` when it fails
ota_turnkey_next ==
    /\ pc = "loop_delay"
    /\ log' = Append(log, Delay("ota_turnkey_firmware_update", REBOOT_DELAY_MS))
    /\ skipReboot' = SkipRebootAfterImage
    /\ i' = NextIndex(i)
    /\ IF LoopContinues(result, NextIndex(i), modules)
       THEN /\ pc' = "loop_cancel"
            /\ UNCHANGED outcomeVars
       ELSE Return(TurnkeyResult(result))
    /\ UNCHANGED << resolverVars, configVars, shouldCancel, other, result, flashResult,
                    readVars, attemptVars, connected, hist >>

---------------------------------------------------------------------------
(* startDFU *)

\* the message startDFU builds for a status
DoneMessage(status) ==
    CASE status = OTA_FAILURE -> "Update failed..."
      [] status = OTA_NOUPDATE -> "No update available..."
      [] status = OTA_SUCCESS -> "Update completed successfully..."
      [] OTHER -> "Unexpected result from firmware update. Please contact support."

\* dfu.ota_turnkey_firmware_update().then((status) => { ...; onDone(message) }):
\* the callback runs when the promise is fulfilled; there is no handler for a
\* rejection
startDFU_then ==
    /\ pc = "done"
    /\ settled = Returned
    /\ log' = Append(log, Ev("onDone", "startDFU", DoneMessage(ret), << >>, ret, TRUE))
    /\ pc' = "onDone"
    /\ UNCHANGED << resolverVars, configVars, shouldCancel, other, loopVars, readVars,
                    attemptVars, connected, outcomeVars, hist >>

---------------------------------------------------------------------------

Next ==
    \/ ota_turnkey_begin
    \/ ota_get_firmware_modules_infos
    \/ ota_get_firmware_modules_download
    \/ ota_turnkey_no_update
    \/ ota_turnkey_enter_loop
    \/ ota_turnkey_cancel
    \/ ota_read_firmware_bytes_stat
    \/ ReadStreamOpen
    \/ ReadStreamData
    \/ ReadStreamEnd
    \/ ReadStreamError
    \/ ota_read_firmware_bytes_poll
    \/ ota_connect_and_discover_check
    \/ ota_connect_and_discover_connect
    \/ ota_connect_and_discover_discover
    \/ ota_connect_and_discover_mtu
    \/ ota_confirm_device_in_dfu
    \/ ota_reboot_device_into_dfu_write
    \/ ota_reboot_device_into_dfu_cancel
    \/ ota_reboot_device_into_dfu_catch
    \/ ota_write_start_command_to_control
    \/ ota_write_firmware_to_device_in_dfu
    \/ ota_end_upload_process_done
    \/ ota_end_upload_process_close
    \/ ota_perform_device_update_cancel
    \/ ota_flash_after_attempt
    \/ ota_flash_retry
    \/ ota_turnkey_next
    \/ startDFU_then

Spec == Init /\ [][Next]_vars

\* DFUHandler.shouldCancel = true: a store to the static field while the
\* data loop of an upload runs.  No statement of the module makes this
\* store; the field is public to whatever code holds the class.
RequestCancel ==
    /\ pc = "upload_data"
    /\ ~shouldCancel
    /\ shouldCancel' = TRUE
    /\ log' = Append(log, Ev("shouldCancel", "application", "", << >>, 0, TRUE))
    /\ UNCHANGED << pc, resolverVars, configVars, other, loopVars, readVars,
                    attemptVars, connected, outcomeVars, hist >>

CancelNext == Next \/ RequestCancel

\* the program together with a request for cancellation
CancelSpec == Init /\ [][CancelNext]_vars

\* startDFU is called a second time for the same peripheralId while the
\* data loop of the first attempt of the first session runs: a new
\* DFUHandler is constructed and its ota_turnkey_firmware_update starts,
\* resetting the static flag
second_startDFU ==
    /\ other = "none"
    /\ pc = "upload_data"
    /\ hist = << >>
    /\ other' = "started"
    /\ shouldCancel' = FALSE
    /\ UNCHANGED << pc, resolverVars, configVars, loopVars, readVars,
                    attemptVars, connected, outcomeVars, log, hist >>

\* the second session, called with the arguments of the first, has its
\* firmware paths and enters its loop while the data loop of the first still
\* runs: cancelDeviceConnection(peripheralId), guarded by try/catch
second_ota_turnkey_cancel ==
    /\ other = "started"
    /\ pc = "upload_data"
    /\ other' = "loop"
    /\ \E ok \in BOOLEAN :
         /\ log' = Append(log, Cancel("second session", ok))
         /\ connected' = (IF ok THEN FALSE ELSE connected)
    /\ UNCHANGED << pc, resolverVars, configVars, shouldCancel, loopVars,
                    readVars, attemptVars, outcomeVars, hist >>

SessionsNext == Next \/ second_startDFU \/ second_ota_turnkey_cancel

\* the program with a second call of startDFU
SessionsSpec == Init /\ [][SessionsNext]_vars

\* every pending HTTP, filesystem, BLE call, timer and promise callback
\* eventually completes: a step that can be taken is eventually taken
LiveSpec == Spec /\ WF_vars(Next)

---------------------------------------------------------------------------
(* Reading the trace *)

IsBleOp(e) == e.op \in BleOps
IsProgress(e) == e.op = "progress"
IsData(e) == e.op = "writeWithoutResponse" /\ e.ch = OTA_DATA_ATTRIBUTE
IsControl(e, word) ==
    /\ e.op \in {"writeWithResponse", "writeWithoutResponse"}
    /\ e.ch = OTA_CONTROL_ATTRIBUTE
    /\ e.val = << word >>
IsWrite(e) == e.op \in {"writeWithResponse", "writeWithoutResponse"}
\* the CTL_START that arms the bootloader for the upload
IsArming(e) == IsControl(e, CTL_START) /\ e.by = "ota_write_start_command_to_control"
IsBootloaderRead(e) ==
    e.op = "readCharacteristic" /\ e.ch = GECKO_BOOTLOADER_VERSION
ChangesLink(e) == e.op \in {"cancelDeviceConnection", "connectToDevice"}

Positions(P(_)) == { k \in DOMAIN log : P(log[k]) }
IsDone(e) == IsControl(e, CTL_DONE)
IsClose(e) == IsControl(e, CTL_CLOSE)
IsOnDone(e) == e.op = "onDone"

\* the attempts hist records for the image at index k of firmwarePaths
AttemptsOf(k) == { j \in DOMAIN hist : hist[j].idx = k }

---------------------------------------------------------------------------
(* Claims *)

\* an image whose first attempt met no failure, or met exactly one and was
\* either not failed by it or followed by a second attempt that met none
RetriedOk(k) ==
    \E j \in AttemptsOf(k) :
       /\ hist[j].attempt = 1
       /\ \/ hist[j].nfaults = 0
          \/ /\ hist[j].nfaults = 1
             /\ \/ hist[j].result
                \/ \E j2 \in AttemptsOf(k) :
                      hist[j2].attempt = 2 /\ hist[j2].nfaults = 0

FailedTwice(k) ==
    \E j1, j2 \in AttemptsOf(k) :
       /\ hist[j1].attempt = 1 /\ ~hist[j1].result
       /\ hist[j2].attempt = 2 /\ ~hist[j2].result

\* C1: Retry-once outcome.  When the orchestrator has settled: if every
\* image of the plan met at most a single failure in its first attempt and
\* none in its second, the orchestrator returned 1 (SUCCESS); if both
\* attempts of some image returned false, it returned 0 (FAILURE).
C1_RetryOnceOutcome ==
    settled # Pending =>
      /\ (Len(modules) > 0 /\ \A k \in 0..(Len(modules) - 1) : RetriedOk(k))
            => (settled = Returned /\ ret = OTA_SUCCESS)
      /\ (\E k \in 0..(Len(modules) - 1) : FailedTwice(k))
            => (settled = Returned /\ ret = OTA_FAILURE)

\* a run that returned SUCCESS after the first attempt on a non-empty image
\* failed on a single failure and the second attempt met none
C1_Witness ==
    /\ settled = Returned /\ ret = OTA_SUCCESS
    /\ \E j \in DOMAIN hist :
         /\ hist[j].attempt = 1 /\ ~hist[j].result /\ hist[j].nfaults = 1
         /\ hist[j].size > 0
         /\ \E j2 \in DOMAIN hist :
              /\ hist[j2].idx = hist[j].idx /\ hist[j2].attempt = 2
              /\ hist[j2].nfaults = 0 /\ hist[j2].result

\* C2 (as claimed): ota_turnkey_firmware_update never rejects; it completes
\* with 1, 0 or -1 whatever HTTP, filesystem and BLE calls fail.
C2_NeverRejects ==
    /\ settled # Rejected
    /\ settled = Returned => ret \in {OTA_SUCCESS, OTA_FAILURE, OTA_NOUPDATE}

\* C3: in every attempt, each write to OTA Data comes after a CTL_START write
\* to OTA Control that completed successfully on the same connection of that
\* attempt (no cancel or connect in between).
C3_NoDataBeforeStart ==
    \A k \in Positions(IsData) :
       \E j \in 1..(k - 1) :
          /\ IsControl(log[j], CTL_START) /\ log[j].ok
          /\ \A m \in (j + 1)..(k - 1) : ~ChangesLink(log[m])

\* a write to OTA Data has been issued
C3_Witness == Positions(IsData) # {}

\* C4 (as claimed): no write of 0x00 to OTA Control is issued before the
\* Bootloader Version has been read successfully in that attempt.
C4_NoStartBeforeBootloaderRead ==
    \A k \in DOMAIN log :
       IsControl(log[k], CTL_START) =>
          \E j \in 1..(k - 1) : IsBootloaderRead(log[j]) /\ log[j].ok

\* C4 (amended): the arming CTL_START of the upload is issued only after the
\* Bootloader Version has been read successfully in that attempt, with
\* skip_reboot true and with skip_reboot false; the 0x00 that requests the
\* reboot into DFU is written without such a read.
C4_NoArmingBeforeBootloaderRead ==
    \A k \in Positions(IsArming) :
       \E j \in 1..(k - 1) : IsBootloaderRead(log[j]) /\ log[j].ok

\* the upload was armed in an attempt that went through the reboot path
C4_Witness ==
    /\ Positions(IsArming) # {}
    /\ ~skipReboot
    /\ \E k \in DOMAIN log :
         IsControl(log[k], CTL_START) /\ log[k].by = "ota_reboot_device_into_dfu"

\* C5: Upload completeness.  When the upload has returned and the device
\* accepted every write of the attempt, the count it returned equals the
\* image size, CTL_DONE was written exactly once and after the last OTA Data
\* block, and CTL_CLOSE exactly once and after CTL_DONE.
C5_UploadCompleteness ==
    (pc = "final_cancel" /\ \A k \in Positions(IsWrite) : log[k].ok) =>
      /\ totalBytesWritten = Len(firmwareBytes)
      /\ Cardinality(Positions(IsDone)) = 1
      /\ Cardinality(Positions(IsClose)) = 1
      /\ \A d \in Positions(IsDone) :
           /\ \A k \in Positions(IsData) : k < d
           /\ \A c \in Positions(IsClose) : d < c

\* an upload of several blocks returned, every write accepted
C5_Witness ==
    /\ pc = "final_cancel"
    /\ \A k \in Positions(IsWrite) : log[k].ok
    /\ Cardinality(Positions(IsData)) >= 2
    /\ Positions(IsClose) # {}

\* C6 (as claimed): an attempt in which a write to OTA Data failed returns
\* false, and the failed block is not counted as written.
C6_DataWriteFailureFailsAttempt ==
    (pc = "perform_return" /\ \E k \in Positions(IsData) : ~log[k].ok) =>
       ~attemptResult

\* C7 (as claimed): the images are flashed in the order of the plan, index 0
\* first.
C7_FlashedInPlanOrder ==
    /\ hist # << >> => hist[1].idx = 0
    /\ \A j, k \in DOMAIN hist : j < k => hist[j].idx <= hist[k].idx

\* the entry of a resolved plan that declares an apploader
DeclaresApploader(e) == e.apploader # Undefined

\* C8: when the latest version of the plan declares an apploader, the
\* apploader image is the first one flashed, the application image is flashed
\* only after an attempt on the apploader image returned true, and every
\* attempt on the application image gets skip_reboot = true.
C8_ApploaderThenApplication ==
    \A n \in DOMAIN plan.infos :
       DeclaresApploader(plan.infos[n]) =>
          LET app == plan.infos[n] IN
            /\ hist # << >> => hist[1].path = app.apploader
            /\ \A j \in DOMAIN hist :
                 hist[j].path = app.key =>
                    /\ hist[j].skip
                    /\ \E k \in 1..(j - 1) :
                          hist[k].path = app.apploader /\ hist[k].result

\* the application image was flashed after its apploader by a handler that
\* was not constructed with isInOTA
C8_Witness ==
    /\ ~isInOTA
    /\ \E n \in DOMAIN plan.infos : DeclaresApploader(plan.infos[n])
    /\ \E j \in DOMAIN hist : hist[j].path = "v2" /\ hist[j].result

\* C9 (as claimed): when the latest FirmwareInfo declares an apploader, the
\* plan has length 2 with the apploader at index 0 and the application at
\* index 1.
C9_ApploaderAtIndexZero ==
    \A n \in DOMAIN plan.infos :
       DeclaresApploader(plan.infos[n]) =>
          /\ Len(plan.infos) = 2
          /\ plan.infos[1].key = plan.infos[n].apploader
          /\ plan.infos[2] = plan.infos[n]

\* C10 (as claimed): a run that returns NOUPDATE has called the progress
\* callback exactly once, with the value 1.0, and has issued no BLE call.
C10_NoUpdateProgress ==
    (settled = Returned /\ ret = OTA_NOUPDATE) =>
      /\ Cardinality(Positions(IsProgress)) = 1
      /\ \A k \in Positions(IsProgress) : log[k].val[1] = log[k].val[2]
      /\ Positions(IsBleOp) = {}

\* a / b <= c / d for the values << a, b >> and << c, d >> of two progress
\* reports (denominators are positive)
LeqRatio(x, y) == x[1] * y[2] <= y[1] * x[2]

\* C11 (as claimed): every value passed to the progress callback is a ratio
\* within [0,1].
C11_ProgressInUnitInterval ==
    \A k \in Positions(IsProgress) :
       LeqRatio(<< 0, 1 >>, log[k].val) /\ LeqRatio(log[k].val, << 1, 1 >>)

IsReset(e) == IsProgress(e) /\ e.by = "ota_perform_device_update"

Flashed(k) == \E j \in AttemptsOf(k) : hist[j].result

\* C13: Outcome classification.  Once the promise of
\* ota_turnkey_firmware_update has settled: it returned 1 (SUCCESS) if and
\* only if the plan is non-empty and every image of it had an attempt that
\* returned true; it returned 0 (FAILURE) if and only if both attempts of
\* some image returned false.
C13_OutcomeClassification ==
    settled # Pending =>
      /\ (settled = Returned /\ ret = OTA_SUCCESS)
            <=> (Len(modules) > 0 /\ \A k \in 0..(Len(modules) - 1) : Flashed(k))
      /\ (settled = Returned /\ ret = OTA_FAILURE)
            <=> (\E k \in 0..(Len(modules) - 1) : FailedTwice(k))

\* a two-part update returned FAILURE: its first image was flashed and both
\* attempts on its second image returned false
C13_Witness ==
    /\ settled = Returned /\ ret = OTA_FAILURE
    /\ Len(modules) = 2
    /\ Flashed(1)
    /\ FailedTwice(0)

\* the errors of the resolver the orchestrator is to report
ResolverErrors == {FIRMWARE_INDEX_UNAVAILABLE, FIRMWARE_INDEX_MALFORMED,
                   FIRMWARE_INDEX_DEVICE_UNKNOWN,
                   FIRMWARE_INDEX_LATEST_VERSION_UNKNOWN}

\* C14 (as claimed): when get_latest_fw_info failed with INDEX_UNAVAILABLE,
\* INDEX_MALFORMED, DEVICE_UNKNOWN or LATEST_UNKNOWN, the orchestrator does
\* not end with NOUPDATE (-1) and progress reported as complete.
C14_ResolverErrorNotNoUpdate ==
    (settled # Pending /\ plan.error \in ResolverErrors) =>
       ~(settled = Returned /\ ret = OTA_NOUPDATE /\ Positions(IsProgress) # {})

\* onDone has been invoked exactly once, with the message of the result
OnDoneInvokedOnce ==
    /\ Cardinality(Positions(IsOnDone)) = 1
    /\ \A k \in Positions(IsOnDone) : log[k].ch = DoneMessage(ret)

\* C15 (as claimed): when every HTTP, filesystem and BLE operation
\* eventually completes, startDFU eventually invokes onDone exactly once,
\* with the message of the orchestrator's result.
C15_OnDoneEventually == <>OnDoneInvokedOnce

\* a successful MTU negotiation; its n is the negotiated MTU
IsMtu(e) == e.op = "requestMTUForDevice" /\ e.ok

\* the bytes of the image from offset `from` (0-based) to its end
Remainder(from) == SubSeq(FileBytes(Len(firmwareBytes)), from + 1, Len(firmwareBytes))

\* the number of bytes the OTA Data writes before position k have carried
SentBefore(k) ==
    LET earlier == { j \in 1..(k - 1) : IsData(log[j]) }
    IN  IF earlier = {} THEN 0
        ELSE LET j == CHOOSE j \in earlier : \A m \in earlier : m <= j
             IN  log[j].val[Len(log[j].val)]

\* C16: Block sizing.  After a successful ota_connect_and_discover with
\* negotiated MTU m, BLOCK_SIZE is m - 8 when m > 8 and 1 when m <= 8;
\* every OTA Data write of the upload that follows carries the next
\* BLOCK_SIZE bytes of the image, except the final one, which carries the
\* non-empty remainder.
C16_BlockSizing ==
    /\ \A p \in Positions(IsMtu) :
          (\A q \in Positions(IsMtu) : q <= p) =>
             BLOCK_SIZE = (IF log[p].n > 8 THEN log[p].n - 8 ELSE 1)
    /\ \A k \in Positions(IsData) :
          LET rest == Remainder(SentBefore(k)) IN
            /\ Len(rest) > 0
            /\ log[k].val = (IF Len(rest) > BLOCK_SIZE
                             THEN SubSeq(rest, 1, BLOCK_SIZE) ELSE rest)
    /\ pc = "upload_done" => SentBefore(Len(log) + 1) = Len(firmwareBytes)

\* an upload sent a full block and then a shorter final block
C16_Witness ==
    /\ pc = "upload_done"
    /\ \E j, k \in Positions(IsData) :
          /\ j < k
          /\ Len(log[j].val) = BLOCK_SIZE
          /\ Len(log[k].val) < BLOCK_SIZE

\* get_latest_fw_info has settled and its locals are still in scope
Resolved == pc \in {"download_fw", "firmwarePaths"} /\ plan.error # Pending

\* the index was fetched and parsed
IndexRetrieved == Resolved /\ log[1].ok /\ plan.error # SyntaxError

\* C17: when get_latest_fw_info returns a plan, the plan is empty if
\* current_fw_version equals the latest version it selected and non-empty
\* if it differs from it; an undefined current_fw_version gives a non-empty
\* plan whenever a latest version was selected.
C17_EmptyPlanIffCurrent ==
    (Resolved /\ plan.error = NoError) =>
       LET latest == LatestFwVersion(fw_index) IN
         /\ currentFWVersion = latest => plan.infos = << >>
         /\ currentFWVersion # latest => Len(plan.infos) > 0
         /\ (currentFWVersion = Undefined /\ latest # Undefined)
               => Len(plan.infos) > 0

\* a current version equal to the latest version, which declares an
\* apploader, gave an empty plan
C17_Witness ==
    /\ Resolved /\ plan.error = NoError
    /\ currentFWVersion # Undefined
    /\ currentFWVersion = LatestFwVersion(fw_index)
    /\ plan.infos = << >>
    /\ fw_index.apploader # Undefined

\* C18 (as claimed): for a current version different from the latest one,
\* the last element of the plan has version = latest, also when the latest
\* version declares an apploader.
C18_LastElementIsLatest ==
    (Resolved /\ plan.error = NoError /\ Len(plan.infos) > 0) =>
       plan.infos[Len(plan.infos)].version = LatestFwVersion(fw_index)

\* C19 (as claimed): a `latest` field is used when present; without it the
\* only version key is used if there is exactly one, and the resolver fails
\* with LATEST_UNKNOWN for zero or for two or more version keys.
C19_LatestDetermination ==
    (IndexRetrieved /\ model_known) =>
       /\ fw_index.latest # Undefined =>
             /\ plan.error = NoError
             /\ plan.infos # << >> => plan.infos[1].version = fw_index.latest
       /\ (fw_index.latest = Undefined /\ Cardinality(fw_index.keys) = 1) =>
             /\ plan.error = NoError
             /\ plan.infos # << >> => plan.infos[1].version \in fw_index.keys
       /\ (fw_index.latest = Undefined /\ Cardinality(fw_index.keys) # 1) =>
             plan.error = FIRMWARE_INDEX_LATEST_VERSION_UNKNOWN

\* C20: when the index was fetched and the requested model is not in it,
\* get_latest_fw_info fails with DEVICE_UNKNOWN and returns no plan.
C20_DeviceUnknown ==
    (IndexRetrieved /\ ~model_known) =>
       /\ plan.error = FIRMWARE_INDEX_DEVICE_UNKNOWN
       /\ plan.infos = << >>

\* an index without the requested model has been fetched
C20_Witness ==
    /\ IndexRetrieved /\ ~model_known
    /\ plan.error = FIRMWARE_INDEX_DEVICE_UNKNOWN
    /\ currentFWVersion # Undefined

\* the GET of the index, the parse of its body, the GET of an artifact
IsIndexFetch(e) == e.op = "fetch" /\ e.by = "_retrieve_fw_index"
IsIndexParse(e) == e.op = "json" /\ e.by = "_retrieve_fw_index"
IsDownload(e) == e.op = "fetch" /\ e.by = "download_fw"

\* C21 (as claimed): retrieving the index fails with INDEX_UNAVAILABLE when
\* the response status is not 2xx and when the request itself fails.
C21_IndexUnavailable ==
    (Resolved /\ IsIndexFetch(log[1]) /\ ~log[1].ok) =>
       plan.error = FIRMWARE_INDEX_UNAVAILABLE

\* C22 (as claimed): a 2xx index response whose body cannot be parsed as
\* JSON makes the resolver fail with INDEX_MALFORMED.
C22_IndexMalformed ==
    (Resolved /\ \E k \in DOMAIN log : IsIndexParse(log[k]) /\ ~log[k].ok) =>
       plan.error = FIRMWARE_INDEX_MALFORMED

\* C23 (as claimed): a run whose download fails, by a status that is not 200
\* or by a failed request, terminates with BUNDLE_UNAVAILABLE.
C23_BundleUnavailable ==
    (\E k \in DOMAIN log : IsDownload(log[k]) /\ ~log[k].ok) =>
       (settled = Rejected /\ err = FIRMWARE_BUNDLE_UNAVAILABLE)

\* the payloads of the OTA Data writes of a trace, in issue order
RECURSIVE Payload(_)
Payload(l) ==
    IF l = << >> THEN << >>
    ELSE (IF IsData(Head(l)) THEN Head(l).val ELSE << >>) \o Payload(Tail(l))

\* C24: within one upload attempt the payloads of the OTA Data writes, in
\* issue order, are the consecutive BLOCK_SIZE slices of the image from byte
\* 0 on: while the data loop runs their concatenation is the image up to
\* index, every write carries BLOCK_SIZE bytes except a shorter, non-empty
\* one that ends with the last byte of the image, and the concatenation
\* equals the image when the loop has ended.  The trace is that of one
\* attempt, so a retry attempt restarts from byte 0.  Each write is awaited
\* before the loop goes on, so a write is issued only after the previous one
\* has completed; data writes are issued nowhere else.
C24_DataWritesInByteOrder ==
    IF pc \in {"upload_data", "upload_done"}
    THEN LET sent == Payload(log)
             image == FileBytes(Len(firmwareBytes))
         IN  /\ sent = SubSeq(image, 1, Min(index, Len(image)))
             /\ \A k \in DOMAIN log :
                   IsData(log[k]) =>
                      \/ Len(log[k].val) = BLOCK_SIZE
                      \/ /\ Len(log[k].val) > 0
                         /\ log[k].val[Len(log[k].val)] = Len(image)
             /\ pc = "upload_done" => sent = firmwareBytes
    ELSE pc \in {"upload_close", "final_cancel", "perform_return"}
            \/ \A k \in DOMAIN log : ~IsData(log[k])

\* the data loop of a retry attempt has ended after several writes
C24_Witness ==
    /\ pc = "upload_done"
    /\ attempt = 2
    /\ Cardinality(Positions(IsData)) >= 2
    /\ Payload(log) = firmwareBytes

\* C25: an image gets at most two attempts of ota_perform_device_update;
\* the second is made only if the first returned false and is preceded, in
\* this order, by a cancel of the connection and a wait of 2500 ms; there
\* is no third attempt.
C25_AtMostOneRetry ==
    /\ \A j \in DOMAIN hist :
          /\ hist[j].attempt \in {1, 2}
          /\ hist[j].attempt = 1 => (j = 1 \/ hist[j - 1].idx # hist[j].idx)
          /\ hist[j].attempt = 2 =>
                /\ j > 1
                /\ hist[j - 1].idx = hist[j].idx
                /\ hist[j - 1].attempt = 1
                /\ ~hist[j - 1].result
    /\ \A k \in 0..(Len(modules) - 1) : Cardinality(AttemptsOf(k)) <= 2
    /\ (attempt = 2 /\ settled = Pending) =>
          /\ Len(log) >= 2
          /\ log[1].op = "cancelDeviceConnection" /\ log[1].ok
          /\ log[2].op = "delay" /\ log[2].n = 2500
          /\ \A k \in 3..Len(log) : log[k].by # "ota_flash"
          /\ hist # << >>
          /\ hist[Len(hist)].idx = i
          /\ hist[Len(hist)].attempt = 1 /\ ~hist[Len(hist)].result

\* a second attempt has returned
C25_Witness ==
    \E j \in DOMAIN hist : hist[j].attempt = 2 /\ hist[j].size > 0

\* C26: once both attempts on an image have returned false, no attempt on
\* another image follows, no BLE call is issued any more, and the
\* orchestrator returns FAILURE (0).
C26_StopsAfterFailedImage ==
    \A j \in DOMAIN hist :
       (hist[j].attempt = 2 /\ ~hist[j].result) =>
          /\ j = Len(hist)
          /\ Positions(IsBleOp) = {}
          /\ pc \in {"loop_delay", "done", "onDone"}
          /\ settled # Pending => (settled = Returned /\ ret = OTA_FAILURE)

\* the first image of a two-part update failed twice and the orchestrator
\* has returned
C26_Witness ==
    /\ settled = Returned
    /\ Len(modules) = 2
    /\ Len(hist) = 2
    /\ hist[2].idx = 1 /\ hist[2].attempt = 2 /\ ~hist[2].result

\* C27: every attempt on the first image flashed gets skip_reboot = isInOTA,
\* and every attempt on an image flashed after it gets skip_reboot = true.
C27_SkipRebootPerImage ==
    \A j \in DOMAIN hist :
       hist[j].skip = (IF hist[j].idx = hist[1].idx THEN isInOTA ELSE TRUE)

\* a handler constructed without isInOTA retried its first image and then
\* flashed a second one
C27_Witness ==
    /\ ~isInOTA
    /\ Len(hist) >= 3
    /\ hist[2].idx = hist[1].idx /\ ~hist[2].skip
    /\ hist[3].idx # hist[1].idx /\ hist[3].skip

IsRebootRequest(e) == IsControl(e, CTL_START) /\ e.by = "ota_reboot_device_into_dfu"
IsConnect(e) == e.op = "connectToDevice"
IsFinalCancel(e) ==
    e.op = "cancelDeviceConnection" /\ e.by = "ota_perform_device_update"

\* milliseconds of delay awaited in a trace
RECURSIVE DelaySum(_)
DelaySum(l) ==
    IF l = << >> THEN 0
    ELSE (IF Head(l).op = "delay" THEN Head(l).n ELSE 0) + DelaySum(Tail(l))

\* milliseconds awaited between the completed request for DFU entry at k and
\* the connect at m
WaitedBetween(k, m) == DelaySum(SubSeq(log, k + 1, m - 1))

\* C28 (as claimed): between a completed write of CTL_START by
\* ota_reboot_device_into_dfu and the next connectToDevice, delays of at
\* least REBOOT_DELAY_MS (2500 ms) are awaited.
C28_RebootDelayBeforeConnect ==
    \A k \in Positions(IsRebootRequest) : \A m \in Positions(IsConnect) :
       (log[k].ok /\ k < m) => WaitedBetween(k, m) >= REBOOT_DELAY_MS

C30_FinalCancelNotFatal ==
    (/\ pc = "perform_return"
     /\ log # << >>
     /\ IsFinalCancel(log[Len(log)])
     /\ ~log[Len(log)].ok)
    => attemptResult = (totalBytesWritten = Len(firmwareBytes))

\* the upload of an image that is not empty succeeded, the cancel after it
\* failed, and the attempt returned true
C30_Witness ==
    /\ pc = "perform_return"
    /\ Len(firmwareBytes) > 0
    /\ \E k \in DOMAIN log : IsClose(log[k]) /\ log[k].ok
    /\ IsFinalCancel(log[Len(log)]) /\ ~log[Len(log)].ok
    /\ attemptResult

IsDiscovery(e) == e.op = "discoverAllServicesAndCharacteristicsForDevice"
IsConnectedCheck(e) == e.op = "isDeviceConnected"

\* C31 (as claimed): every successful ota_connect_and_discover, which ends
\* with a successful requestMTUForDevice, has performed a successful
\* discovery of services and characteristics since it started (since its
\* isDeviceConnected call), whatever that call answered.
C31_DiscoveryOnEveryConnect ==
    \A p \in Positions(IsMtu) :
       \E q \in 1..(p - 1) :
          /\ IsDiscovery(log[q]) /\ log[q].ok
          /\ \A m \in (q + 1)..(p - 1) : ~IsConnectedCheck(log[m])

\* a request for DFU entry was issued before position p of the trace
RebootRequestedBefore(p) == \E r \in 1..(p - 1) : IsRebootRequest(log[r])

\* C32: path selection after connecting.  After the first successful
\* ota_connect_and_discover of an attempt the next call is the Bootloader
\* Version read when skip_reboot is true and the request for DFU entry
\* (write of 0x00) when it is false, without a read before it; a read that
\* succeeds is followed by the upload and by no request for DFU entry; a read
\* that fails before the reboot is followed by the request for DFU entry; a
\* completed request is followed by the cancel, and the reconnect after it by
\* a Bootloader Version read, whose failure ends the attempt.  The trace of
\* an attempt is complete when ota_perform_device_update returns, and it is
\* examined then.
C32_PathSelection ==
    pc = "perform_return" =>
    \A p \in DOMAIN log :
       /\ (IsMtu(log[p]) /\ p < Len(log)) =>
             IF skipReboot \/ RebootRequestedBefore(p)
             THEN IsBootloaderRead(log[p + 1])
             ELSE IsRebootRequest(log[p + 1])
       /\ IsBootloaderRead(log[p]) =>
             /\ skipReboot \/ RebootRequestedBefore(p)
             /\ IF log[p].ok
                THEN /\ p < Len(log) => IsReset(log[p + 1])
                     /\ \A r \in (p + 1)..Len(log) : ~IsRebootRequest(log[r])
                ELSE IF RebootRequestedBefore(p)
                     THEN p = Len(log) /\ ~attemptResult
                     ELSE p < Len(log) => IsRebootRequest(log[p + 1])
       /\ (IsRebootRequest(log[p]) /\ p < Len(log)) =>
             /\ log[p + 1].op = "cancelDeviceConnection"
             /\ log[p + 1].by = "ota_reboot_device_into_dfu"
             /\ ~RebootRequestedBefore(p)

\* with skip_reboot the Bootloader Version read failed, the engine rebooted
\* the device, reconnected and read the Bootloader Version again
C32_Witness ==
    /\ pc = "perform_return"
    /\ skipReboot
    /\ \E b \in Positions(IsBootloaderRead) :
          /\ ~log[b].ok
          /\ b + 1 <= Len(log) /\ IsRebootRequest(log[b + 1]) /\ log[b + 1].ok
          /\ \E c \in Positions(IsBootloaderRead) : c > b /\ log[c].ok

\* C36: the arming CTL_START of the upload is issued only after a successful
\* Bootloader Version read that follows the most recent successful
\* ota_connect_and_discover of the attempt, with no cancel and no connect
\* between that ota_connect_and_discover and the arming write.  The arming
\* write is the first call of the upload; the trace is examined while the
\* upload runs and when it has returned.
C36_ArmingAfterConfirmOnLink ==
    pc \in {"upload_data", "upload_done", "upload_close", "final_cancel"} =>
    \A k \in DOMAIN log :
       IsArming(log[k]) =>
          \E c \in 1..(k - 1) :
             /\ IsMtu(log[c])
             /\ \A m \in (c + 1)..(k - 1) : ~IsMtu(log[m]) /\ ~ChangesLink(log[m])
             /\ \E b \in (c + 1)..(k - 1) : IsBootloaderRead(log[b]) /\ log[b].ok

\* the upload was armed after a reboot into DFU that followed a failed
\* Bootloader Version read on the first connection
C36_Witness ==
    /\ pc = "final_cancel"
    /\ \E k \in Positions(IsArming) : log[k].ok
    /\ \E r \in Positions(IsRebootRequest) :
          \E b \in 1..(r - 1) : IsBootloaderRead(log[b]) /\ ~log[b].ok

\* a call of ota_connect_and_discover failed, the request for DFU entry
\* failed, or the Bootloader Version read after the reboot failed
SetupFailed ==
    \E k \in DOMAIN log :
       /\ ~log[k].ok
       /\ \/ log[k].by = "ota_connect_and_discover"
          \/ IsRebootRequest(log[k])
          \/ IsBootloaderRead(log[k]) /\ RebootRequestedBefore(k)

\* the upload issued one of its calls: arming, OTA Data, CTL_DONE, CTL_CLOSE
UploadTouched ==
    \E k \in DOMAIN log :
       IsArming(log[k]) \/ IsData(log[k]) \/ IsDone(log[k]) \/ IsClose(log[k])

\* C33 (as claimed): when the initial connect, the request for DFU entry, the
\* reconnect after the reboot or the Bootloader Version read after the
\* reboot has failed, the attempt issues no arming CTL_START, no OTA Data
\* write, no CTL_DONE and no CTL_CLOSE, and ota_perform_device_update returns
\* false, whatever the length of the image.
C33_SetupFailureFailsAttempt ==
    (pc = "perform_return" /\ SetupFailed) => (~UploadTouched /\ ~attemptResult)

\* C37 (as claimed): ota_perform_device_update returns true only if the
\* arming CTL_START write and the CTL_DONE write of that attempt both
\* completed successfully, for an image of any length, 0 bytes included.
C37_TrueOnlyAfterStartAndDone ==
    (pc = "perform_return" /\ attemptResult) =>
       /\ \E k \in DOMAIN log : IsArming(log[k]) /\ log[k].ok
       /\ \E k \in DOMAIN log : IsDone(log[k]) /\ log[k].ok

\* ota_read_firmware_bytes waits in its polling loop
Polling == pc = "read_poll"

\* C38 (as claimed): ota_read_firmware_bytes terminates.  For a file that
\* is not empty, when every pending call and callback eventually happens (the
\* stream ends, reports an error, or its opening fails), the polling loop
\* eventually ends.
C38_ReadTerminates == Polling ~> ~Polling

\* a call on the BLE manager has been issued in this run
DeviceTouched == hist # << >> \/ \E k \in DOMAIN log : IsBleOp(log[k])

\* C39: no call on the BLE manager (cancel, connect, read or write) is issued
\* before every artifact of the plan has been downloaded: until
\* ota_get_firmware_modules has returned the device is untouched, once it is
\* touched the downloaded paths are those of all the entries of the plan, and
\* a run in which a download failed never touches the device.
C39_DeviceUntouchedUntilDownloaded ==
    /\ pc \in {"turnkey", "get_latest_fw_info", "download_fw", "firmwarePaths"}
          => ~DeviceTouched
    /\ DeviceTouched =>
          /\ plan.error = NoError
          /\ Len(modules) = Len(plan.infos)
          /\ \A n \in DOMAIN modules : modules[n] = plan.infos[n].key
    /\ hist = << >> =>
          \A k \in DOMAIN log :
             (IsDownload(log[k]) /\ ~log[k].ok) =>
                /\ \A m \in DOMAIN log : ~IsBleOp(log[m])
                /\ settled = Rejected

\* both artifacts of a two-part plan were downloaded, and the device was
\* touched after the second download
C39_Witness ==
    /\ Len(plan.infos) = 2
    /\ hist = << >>
    /\ \E k \in DOMAIN log :
          /\ IsBleOp(log[k])
          /\ Cardinality({ d \in 1..(k - 1) : IsDownload(log[d]) /\ log[d].ok }) = 2

\* the trace holds a connectToDevice that resolved and no
\* cancelDeviceConnection issued after it
LeftOpen(l) ==
    \E c \in DOMAIN l :
       /\ l[c].op = "connectToDevice" /\ l[c].ok
       /\ \A m \in (c + 1)..Len(l) : l[m].op # "cancelDeviceConnection"

\* ota_perform_device_update has returned for the last time in this run:
\* ota_flash makes no retry and the loop of ota_turnkey_firmware_update ends,
\* so that the orchestrator returns 1 or 0 without another call on the BLE
\* manager
LastAttemptReturned ==
    /\ pc = "perform_return"
    /\ ~(attempt = 1 /\ ~attemptResult)
    /\ ~attemptResult \/ i = 0

\* C40 (as claimed): when ota_turnkey_firmware_update returns 1 or 0, a
\* cancelDeviceConnection was issued after the last successful
\* connectToDevice of the run: the last attempt of the run, after which no
\* cancel is issued any more, does not leave its connection open.
C40_NoConnectionLeftOpen == LastAttemptReturned => ~LeftOpen(log)

IsCancelRequest(e) == e.op = "shouldCancel"

\* the OTA Data writes issued after position c of the trace
DataWritesAfter(c) == { k \in (c + 1)..Len(log) : IsData(log[k]) }

IsOfSecondSession(e) == e.by = "second session"

\* C34 (as claimed): when startDFU is called twice for the same
\* peripheralId, the second session issues no BLE operation while the first
\* is still running, so that the GATT operations of the two sessions are
\* not interleaved: no call of the first session follows one of the second.
C34_OneSessionPerPeripheral ==
    /\ other = "loop" => settled # Pending
    /\ \A k \in DOMAIN log :
          (IsOfSecondSession(log[k]) /\ IsBleOp(log[k])) =>
             \A m \in (k + 1)..Len(log) : ~IsBleOp(log[m])

=============================================================================
